---- MODULE Spec2Model ----
(***************************************************************************)
(* FactFlow: the verification orchestrator FactChecker (src/app/           *)
(* factchecker.py).  One run of check_text / check_image / check_pdf /     *)
(* check_url is modelled step by step: every request to the reasoning      *)
(* backend and every web search is one step, the replies of the backend    *)
(* and of the search client are the environment's choices.                 *)
(*                                                                         *)
(* Confidence values are integers in hundredths (95 stands for 0.95).      *)
(* Strings that the code inspects character-wise (the claim body) are      *)
(* sequences of characters; formatted texts are sequences of their parts.  *)
(* The timestamp of a record is not modelled.                              *)
(***************************************************************************)
EXTENDS Integers, Sequences, FiniteSets, TLC

(* ---------------------------- bounds ----------------------------------- *)

\* total number of tool calls the backend may request during one run
MaxToolCalls == 6
\* number of tool calls the backend may put into one reply
MaxCallsPerReply == 2

(* ------------------------- input alphabets ----------------------------- *)

Whitespace == {" ", "\n"}

\* claim bodies: empty, whitespace-only, padded text
Texts == { <<>>, <<" ", "\n">>, <<" ", "a", " ">> }

\* str(e) of a fault raised by the backend client, the search client or an extractor
FaultTexts == {"timeout", "refused"}

\* str(e) of the fault the search client raises during a run
SearchFaultTexts == {"network"}

Urls == {"http://u"}

Verdicts == {"TRUE", "FALSE", "UNVERIFIABLE", "ERROR"}

\* confidence 1.0 in hundredths
ConfidenceScale == 100

(* --------------------------- str.strip --------------------------------- *)

RECURSIVE LStrip(_)
LStrip(s) ==
    IF s = <<>> THEN <<>>
    ELSE IF Head(s) \in Whitespace THEN LStrip(Tail(s)) ELSE s

RECURSIVE RStrip(_)
RStrip(s) ==
    IF s = <<>> THEN <<>>
    ELSE IF s[Len(s)] \in Whitespace THEN RStrip(SubSeq(s, 1, Len(s) - 1)) ELSE s

Strip(s) == RStrip(LStrip(s))

\* the emptiness test without the strip
IsBlank_NoStrip(s) == s = <<>>

\* "not text.strip()"
IsBlank(s) == Strip(s) = <<>>

(* --------------------------- records ----------------------------------- *)

NoEvidence == [supporting |-> <<>>, counter |-> <<>>]

Source(title, url) == [title |-> title, url |-> url]

UrlSource(url) == Source("Source URL", url)

CheckResponse(v, c, cl, concl, ev, srcs) ==
    [verdict |-> v, confidence |-> c, claim |-> cl, conclusion |-> concl,
     evidence |-> ev, sources |-> srcs]

\* the except-handler leaving the fault out of the conclusion
ErrorResponse_NoDetail(prefix, e, srcs) ==
    CheckResponse("ERROR", 0, "", <<prefix>>, NoEvidence, srcs)

\* the record every except-handler builds: f"<prefix>{str(e)}"
ErrorResponse(prefix, e, srcs) ==
    CheckResponse("ERROR", 0, "", <<prefix, e>>, NoEvidence, srcs)

UnverifiableResponse(text, srcs) ==
    CheckResponse("UNVERIFIABLE", 0, "", <<text>>, NoEvidence, srcs)

NoRecord == CheckResponse("", 0, "", <<>>, NoEvidence, <<>>)

(* --------------------------- search_web -------------------------------- *)

\* what the search client does on one call: raise, or return a mapping in
\* which the keys "results" and "answer" may be missing
SearchFault(e) ==
    [raised |-> TRUE, err |-> e, hasResults |-> FALSE, results |-> <<>>,
     hasAnswer |-> FALSE, answer |-> ""]

SearchReturn(hr, r, ha, a) ==
    [raised |-> FALSE, err |-> "", hasResults |-> hr, results |-> r,
     hasAnswer |-> ha, answer |-> a]

ResultLists == { <<>>, <<"r1">>, <<"r1", "r2">> }

Answers == {"", "ans"}

AllSearchResponses ==
    { SearchFault(e) : e \in FaultTexts }
    \cup { SearchReturn(TRUE, r, TRUE, a) : r \in ResultLists, a \in Answers }
    \cup { SearchReturn(FALSE, <<>>, TRUE, a) : a \in Answers }
    \cup { SearchReturn(TRUE, r, FALSE, "") : r \in ResultLists }
    \cup { SearchReturn(FALSE, <<>>, FALSE, "") }

\* the responses drawn while a run is in progress
RunSearchResponses ==
    { SearchFault(e) : e \in SearchFaultTexts }
    \cup { SearchReturn(TRUE, <<"r1">>, TRUE, "ans") }

\* dict.get(key, default)
Get(has, val, default) == IF has THEN val ELSE default

\* search_web dropping the error annotation
search_web_NoAnnotation(resp) ==
    IF resp.raised
    THEN [results |-> <<>>, answer |-> "", hasError |-> FALSE, error |-> ""]
    ELSE [results |-> Get(resp.hasResults, resp.results, <<>>),
          answer |-> Get(resp.hasAnswer, resp.answer, ""),
          hasError |-> FALSE, error |-> ""]

search_web(resp) ==
    IF resp.raised
    THEN [results |-> <<>>, answer |-> "", hasError |-> TRUE, error |-> resp.err]
    ELSE [results |-> Get(resp.hasResults, resp.results, <<>>),
          answer |-> Get(resp.hasAnswer, resp.answer, ""),
          hasError |-> FALSE, error |-> ""]

NoSearchResult == [results |-> <<>>, answer |-> "", hasError |-> FALSE, error |-> ""]

(* ------------------- the final reply and its parsing ------------------- *)

Absent == [tag |-> "absent", val |-> ""]
Str(v) == [tag |-> "str", val |-> v]

AbsentNum == [tag |-> "absent", val |-> 0]
\* a JSON number, a string holding a number, a string holding no number
Num(n) == [tag |-> "num", val |-> n]
NumStr(n) == [tag |-> "numstr", val |-> n]
BadStr == [tag |-> "badstr", val |-> 0]

AbsentEvidence == [tag |-> "absent", val |-> NoEvidence]
\* a well-formed evidence object, and a value that is no evidence object
EvidenceObj(e) == [tag |-> "obj", val |-> e]
BadEvidence == [tag |-> "bad", val |-> NoEvidence]

\* one entry of "sources" / "citations": a mapping whose title may be missing
SourceItem(ht, t, u) == [hasTitle |-> ht, title |-> t, url |-> u]

AbsentList == [tag |-> "absent", val |-> <<>>]
ItemList(l) == [tag |-> "list", val |-> l]
\* a list with an entry that is no mapping (a bare URL string)
BadList == [tag |-> "bad", val |-> <<>>]

ReplyVerdicts == {Absent} \cup { Str(v) : v \in Verdicts \cup {"MAYBE"} }

ReplyConfidences ==
    {AbsentNum, BadStr, NumStr(95)} \cup { Num(n) : n \in {-1, 0, 95, 100, 101} }

GoodClaim == Str("the claim")
GoodConclusion == Str("the conclusion")
GoodEvidence == EvidenceObj([supporting |-> <<"s1">>, counter |-> <<>>])
GoodSources == ItemList(<<SourceItem(TRUE, "t1", "u1")>>)
GoodCitations == ItemList(<<SourceItem(FALSE, "", "u2")>>)

\* the remaining fields of a reply: <<claim, conclusion, evidence, sources, citations>>
ReplyRests ==
    { <<Absent, Absent, AbsentEvidence, AbsentList, AbsentList>>,
      <<GoodClaim, GoodConclusion, GoodEvidence, GoodSources, GoodCitations>>,
      <<GoodClaim, Absent, AbsentEvidence, AbsentList, AbsentList>>,
      <<Absent, GoodConclusion, AbsentEvidence, AbsentList, AbsentList>>,
      <<Absent, Absent, GoodEvidence, AbsentList, AbsentList>>,
      <<Absent, Absent, AbsentEvidence, GoodSources, AbsentList>>,
      <<Absent, Absent, AbsentEvidence, AbsentList, GoodCitations>>,
      <<GoodClaim, GoodConclusion, BadEvidence, GoodSources, AbsentList>>,
      <<GoodClaim, GoodConclusion, GoodEvidence, BadList, AbsentList>> }

JsonObject(v, c, rest) ==
    [kind |-> "object", verdict |-> v, confidence |-> c, claim |-> rest[1],
     conclusion |-> rest[2], evidence |-> rest[3], sources |-> rest[4],
     citations |-> rest[5]]

EmptyObject ==
    JsonObject(Absent, AbsentNum, <<Absent, Absent, AbsentEvidence, AbsentList, AbsentList>>)

\* content that is not JSON at all, and JSON that is not an object
Garbage == [EmptyObject EXCEPT !.kind = "garbage"]
JsonArray == [EmptyObject EXCEPT !.kind = "array"]

FinalContents ==
    {Garbage, JsonArray}
    \cup { JsonObject(v, c, rest) :
             v \in ReplyVerdicts, c \in ReplyConfidences, rest \in ReplyRests }

Raise(e) == [raised |-> TRUE, err |-> e, rec |-> NoRecord]
Return(r) == [raised |-> FALSE, err |-> "", rec |-> r]

\* result_data.get("sources", result_data.get("citations", []))
SourceField(d) ==
    IF d.sources.tag # "absent" THEN d.sources
    ELSE IF d.citations.tag # "absent" THEN d.citations
    ELSE ItemList(<<>>)

\* [Source(title=s.get("title", ""), url=s.get("url", "")) for s in ...]
MakeSources(items) ==
    [i \in 1..Len(items) |->
        Source(Get(items[i].hasTitle, items[i].title, ""), items[i].url)]

\* the field constraints of CheckResponse
ValidVerdict(v) == v \in Verdicts
\* the confidence constraint without its upper limit
ValidConfidence_NoUpper(c) == c >= 0

ValidConfidence(c) == c >= 0 /\ c <= ConfidenceScale

\* the parse with claim and conclusion taken from each other's key
ParseFinal_Swapped(d) ==
    IF d.kind = "garbage" THEN Raise("JSONDecodeError")
    ELSE IF d.kind = "array" THEN Raise("AttributeError")
    ELSE IF SourceField(d).tag = "bad" THEN Raise("AttributeError")
    ELSE IF d.confidence.tag = "badstr" THEN Raise("ValueError")
    ELSE LET v == Get(d.verdict.tag # "absent", d.verdict.val, "UNVERIFIABLE")
             c == Get(d.confidence.tag # "absent", d.confidence.val, 0)
             cl == Get(d.conclusion.tag # "absent", d.conclusion.val, "")
             concl == Get(d.claim.tag # "absent", d.claim.val, "Unable to verify")
             ev == Get(d.evidence.tag # "absent", d.evidence.val, NoEvidence)
         IN IF ValidVerdict(v) /\ ValidConfidence(c) /\ d.evidence.tag # "bad"
            THEN Return(CheckResponse(v, c, cl, <<concl>>, ev,
                                      MakeSources(SourceField(d).val)))
            ELSE Raise("ValidationError")

\* the parse falling back to the defaults when the content is no JSON object
ParseFinal_Lenient(d) ==
    IF d.kind # "object"
    THEN Return(CheckResponse("UNVERIFIABLE", 0, "", <<"Unable to verify">>, NoEvidence, <<>>))
    ELSE IF SourceField(d).tag = "bad" THEN Raise("AttributeError")
    ELSE IF d.confidence.tag = "badstr" THEN Raise("ValueError")
    ELSE LET v == Get(d.verdict.tag # "absent", d.verdict.val, "UNVERIFIABLE")
             c == Get(d.confidence.tag # "absent", d.confidence.val, 0)
             cl == Get(d.claim.tag # "absent", d.claim.val, "")
             concl == Get(d.conclusion.tag # "absent", d.conclusion.val, "Unable to verify")
             ev == Get(d.evidence.tag # "absent", d.evidence.val, NoEvidence)
         IN IF ValidVerdict(v) /\ ValidConfidence(c) /\ d.evidence.tag # "bad"
            THEN Return(CheckResponse(v, c, cl, <<concl>>, ev,
                                      MakeSources(SourceField(d).val)))
            ELSE Raise("ValidationError")

\* a parse that clamps the confidence into range and reads an unknown
\* verdict as UNVERIFIABLE
ParseFinal_Clamp(d) ==
    IF d.kind = "garbage" THEN Raise("JSONDecodeError")
    ELSE IF d.kind = "array" THEN Raise("AttributeError")
    ELSE IF SourceField(d).tag = "bad" THEN Raise("AttributeError")
    ELSE IF d.confidence.tag = "badstr" THEN Raise("ValueError")
    ELSE LET v == Get(d.verdict.tag # "absent", d.verdict.val, "UNVERIFIABLE")
             c == Get(d.confidence.tag # "absent", d.confidence.val, 0)
             cl == Get(d.claim.tag # "absent", d.claim.val, "")
             concl == Get(d.conclusion.tag # "absent", d.conclusion.val, "Unable to verify")
             ev == Get(d.evidence.tag # "absent", d.evidence.val, NoEvidence)
             vv == IF ValidVerdict(v) THEN v ELSE "UNVERIFIABLE"
             cc == IF c < 0 THEN 0 ELSE IF c > ConfidenceScale THEN ConfidenceScale ELSE c
         IN IF d.evidence.tag # "bad"
            THEN Return(CheckResponse(vv, cc, cl, <<concl>>, ev,
                                      MakeSources(SourceField(d).val)))
            ELSE Raise("ValidationError")

\* json.loads(content) up to the construction of CheckResponse
ParseFinal(d) ==
    IF d.kind = "garbage" THEN Raise("JSONDecodeError")
    ELSE IF d.kind = "array" THEN Raise("AttributeError")
    ELSE IF SourceField(d).tag = "bad" THEN Raise("AttributeError")
    ELSE IF d.confidence.tag = "badstr" THEN Raise("ValueError")
    ELSE LET v == Get(d.verdict.tag # "absent", d.verdict.val, "UNVERIFIABLE")
             c == Get(d.confidence.tag # "absent", d.confidence.val, 0)
             cl == Get(d.claim.tag # "absent", d.claim.val, "")
             concl == Get(d.conclusion.tag # "absent", d.conclusion.val, "Unable to verify")
             ev == Get(d.evidence.tag # "absent", d.evidence.val, NoEvidence)
         IN IF ValidVerdict(v) /\ ValidConfidence(c) /\ d.evidence.tag # "bad"
            THEN Return(CheckResponse(v, c, cl, <<concl>>, ev,
                                      MakeSources(SourceField(d).val)))
            ELSE Raise("ValidationError")

(* ------------------------- the conversation ---------------------------- *)

Message(role, content, calls, callId, name, res) ==
    [role |-> role, content |-> content, tool_calls |-> calls,
     tool_call_id |-> callId, name |-> name, result |-> res]

SystemMessage == Message("system", <<"You are an expert fact-checker.">>, <<>>, 0, "", NoSearchResult)

\* f"Fact-check this claim:\n\n\"{text}\""
UserMessage(t) == Message("user", <<"Fact-check this claim:">> \o t, <<>>, 0, "", NoSearchResult)

AssistantMessage(calls) == Message("assistant", <<>>, calls, 0, "", NoSearchResult)

\* the tool message without the id of the call it answers
ToolMessage_Untagged(call, res) == Message("tool", <<>>, <<>>, 0, call.name, res)

\* the tool message: content is json.dumps(results)
ToolMessage(call, res) == Message("tool", <<>>, <<>>, call.id, call.name, res)

FinalPrompt == Message("user", <<"Now summarize your findings in JSON">>, <<>>, 0, "", NoSearchResult)

\* the names of the tools offered to the backend (self.tools)
ToolNames == {"search_web"}

\* a tool call of a reply: its arguments are a JSON text that decodes or does not
ToolCall(id, name, decodable) ==
    [id |-> id, name |-> name, decodable |-> decodable, query |-> id]

\* the replies the backend can give to a request with tools: n calls, numbered on from first
ToolCallLists(first, n) ==
    { [i \in 1..n |-> ToolCall(first + i - 1, nm[i], dec[i])] :
        nm \in [1..n -> ToolNames], dec \in [1..n -> BOOLEAN] }

Min(a, b) == IF a < b THEN a ELSE b

(* ------------------------- the fact_checks table ----------------------- *)

\* number of values uuid4 is drawn from
NumUids == 2

Uids == 1..NumUids

Users == {"alice", "bob"}

\* no user
NoUser == ""

\* the timestamps a record can carry
Timestamps == {1, 2}

\* the verdicts of the records that are saved
SavedVerdicts == {"TRUE", "FALSE"}

\* the part of a CheckResponse that the table's queries read
Checks == [verdict : SavedVerdicts, timestamp : Timestamps]

\* FactCheck(uid=..., user_id=..., verdict=..., timestamp=...)
FactCheck(uid, user_id, check) ==
    [uid |-> uid, user_id |-> user_id, verdict |-> check.verdict,
     timestamp |-> check.timestamp]

\* limit=None
NoLimit == -1

\* the largest limit asked for
MaxLimit == 2

Limits == (0..MaxLimit) \cup {NoLimit}

\* verdict=None, an empty filter, and filters that name a verdict
NoFilter == "None"
VerdictFilters == {NoFilter, "", "TRUE", "FALSE"}

DbArgs(uid, user_id, limit, verdict) ==
    [uid |-> uid, user_id |-> user_id, limit |-> limit, verdict |-> verdict]

NoArgs == DbArgs(0, NoUser, NoLimit, NoFilter)

\* a Database method raises, or returns a uid, a list of rows or a boolean
DbRaise == [raised |-> TRUE, uid |-> 0, rows |-> <<>>, ok |-> FALSE]
DbReturn(uid, rows, ok) == [raised |-> FALSE, uid |-> uid, rows |-> rows, ok |-> ok]

NoReturn == DbReturn(0, <<>>, FALSE)

(* ----------------------------- state ----------------------------------- *)

VARIABLES
    pc,                \* position of the run
    op,                \* the entry point that was called
    text,              \* the claim body handed to check_text (or the given body)
    url,               \* the argument of check_url
    messages,          \* the conversation of check_text
    response_message,  \* tool calls of the latest backend reply
    toolIdx,           \* position of the for loop in response_message.tool_calls
    finalContent,      \* content of the final reply
    result,            \* the record returned
    rounds,            \* iterations of the tool loop started
    issued,            \* tool calls requested by the backend so far
    backendCalls,      \* requests sent to the reasoning backend
    searchCalls,       \* invocations of the search client
    faults,            \* kinds of faults raised during the run
    backendErr,        \* str(e) of the fault the backend raised
    extracted,         \* what the extraction step yielded: "none", "fault", "nothing", "text"
    lastQuery,         \* query of the latest search (0: none)
    lastResponse,      \* latest response of the search client
    lastSearch,        \* latest value returned by search_web
    requests,          \* the backend requests of the run: "tools" (tools offered) or "summary"
    firstCalls,        \* number of tool calls in the first backend reply (-1: no reply yet)
    http,              \* status code of the HTTP response (0: none yet)
    store,             \* the rows of the fact_checks table
    savedBy,           \* for every uid in the table, the user_id given to the save that wrote it
    dbOp,              \* the latest Database operation
    dbArgs,            \* its arguments
    dbRet,             \* what it returned
    dbBefore,          \* the rows of the table when it was called
    api,               \* the latest request to the HTTP layer and its answer
    other              \* the locals of a second check_text run that is not running now

\* the variables of one run of the FactChecker
runVars == <<pc, op, text, url, messages, response_message, toolIdx, finalContent,
             result, rounds, issued, backendCalls, searchCalls, faults, backendErr,
             extracted, lastQuery, lastResponse, lastSearch, requests, firstCalls>>

\* the variables of the Database
dbVars == <<store, savedBy, dbOp, dbArgs, dbRet, dbBefore>>

\* what the FactChecker and the Database by themselves never touch
outer == <<api, other>>

vars == <<runVars, http, dbVars, outer>>

\* a bearer token: its signature and expiry verify or do not, and its payload
\* has a "sub" entry or has none
NoSub == "None"
Token(valid, sub) == [valid |-> valid, sub |-> sub]
NoToken == Token(FALSE, NoSub)

\* a request: the route's handler, the token and the user_id of the body it
\* came with, the status code and the user_id of the response
ApiCall(endpoint, token, body_user_id, status, user_id) ==
    [endpoint |-> endpoint, token |-> token, body_user_id |-> body_user_id,
     status |-> status, user_id |-> user_id]
NoCall == ApiCall("", NoToken, NoUser, 0, NoUser)

\* the locals of a check_text run
Locals(p, o, t, u, msgs, rm, ti, fc, res, rnds, bc, sc, fl, be, ex, lq, lr, ls, rq, fcs) ==
    [pc |-> p, op |-> o, text |-> t, url |-> u, messages |-> msgs,
     response_message |-> rm, toolIdx |-> ti, finalContent |-> fc, result |-> res,
     rounds |-> rnds, backendCalls |-> bc, searchCalls |-> sc, faults |-> fl,
     backendErr |-> be, extracted |-> ex, lastQuery |-> lq, lastResponse |-> lr,
     lastSearch |-> ls, requests |-> rq, firstCalls |-> fcs]

\* the locals of a run that has not started
IdleLocals ==
    Locals("idle", "", <<>>, "", <<>>, <<>>, 0, EmptyObject, NoRecord, 0, 0, 0, {}, "",
           "none", 0, SearchReturn(FALSE, <<>>, FALSE, ""), NoSearchResult, <<>>, -1)

Init ==
    /\ pc = "idle"
    /\ op = ""
    /\ text = <<>>
    /\ url = ""
    /\ messages = <<>>
    /\ response_message = <<>>
    /\ toolIdx = 0
    /\ finalContent = EmptyObject
    /\ result = NoRecord
    /\ rounds = 0
    /\ issued = 0
    /\ backendCalls = 0
    /\ searchCalls = 0
    /\ faults = {}
    /\ backendErr = ""
    /\ extracted = "none"
    /\ lastQuery = 0
    /\ lastResponse = SearchReturn(FALSE, <<>>, FALSE, "")
    /\ lastSearch = NoSearchResult
    /\ requests = <<>>
    /\ firstCalls = -1
    /\ http = 0
    /\ store = {}
    /\ savedBy = [u \in Uids |-> NoUser]
    /\ dbOp = "none"
    /\ dbArgs = NoArgs
    /\ dbRet = NoReturn
    /\ dbBefore = {}
    /\ api = NoCall
    /\ other = IdleLocals

\* return r: the locals of the call are gone
ReturnRecord(r) ==
    /\ result' = r
    /\ pc' = "done"
    /\ messages' = <<>>
    /\ response_message' = <<>>
    /\ toolIdx' = 0
    /\ lastQuery' = 0
    /\ lastResponse' = SearchReturn(FALSE, <<>>, FALSE, "")
    /\ lastSearch' = NoSearchResult

\* an except clause that records the fault and lets the run go on
CheckTextHandler_Retry(kind, e) ==
    /\ faults' = faults \cup {kind}
    /\ UNCHANGED <<result, pc, messages, response_message, toolIdx, lastQuery,
                   lastResponse, lastSearch>>

\* the except clause of check_text
CheckTextHandler(kind, e) ==
    /\ ReturnRecord(ErrorResponse("Error during fact-checking: ", e, <<>>))
    /\ faults' = faults \cup {kind}

\* the body of check_text up to the first request
EnterCheckText(t) ==
    /\ text' = t
    /\ messages' = <<SystemMessage, UserMessage(t)>>
    /\ pc' = "request"
    /\ UNCHANGED <<response_message, toolIdx, result, faults, lastQuery, lastResponse,
                   lastSearch>>

(* ------------------------- the entry points ---------------------------- *)

\* what an extractor does: raise, or return text
ExtractFault(e) == [raised |-> TRUE, err |-> e, found |-> FALSE, text |-> <<>>]
ExtractText(t) == [raised |-> FALSE, err |-> "", found |-> TRUE, text |-> t]
\* tavily_client.extract returning nothing, or no results
ExtractNothing == [raised |-> FALSE, err |-> "", found |-> FALSE, text |-> <<>>]

Extractions == { ExtractFault(e) : e \in FaultTexts } \cup { ExtractText(t) : t \in Texts }

check_text(t) ==
    /\ pc = "idle"
    /\ op' = "check_text"
    /\ EnterCheckText(t)
    /\ UNCHANGED <<url, finalContent, rounds, issued, backendCalls, searchCalls, backendErr,
                   extracted, requests, firstCalls, http, dbVars>>

\* the wrapper treating a fault of the extractor like text that was not found
CheckExtracted_FaultAsBlank(name, x, errPrefix, blankText) ==
    /\ pc = "idle"
    /\ op' = name
    /\ IF x.raised \/ IsBlank(x.text)
       THEN /\ ReturnRecord(UnverifiableResponse(blankText, <<>>))
            /\ faults' = IF x.raised THEN faults \cup {"extract"} ELSE faults
            /\ text' = x.text
       ELSE EnterCheckText(x.text)
    /\ extracted' = IF x.raised THEN "fault" ELSE "text"
    /\ UNCHANGED <<url, finalContent, rounds, issued, backendCalls, searchCalls, backendErr,
                   requests, firstCalls, http, dbVars>>

\* check_image and check_pdf: extract, test for blank text, delegate to check_text
CheckExtracted(name, x, errPrefix, blankText) ==
    /\ pc = "idle"
    /\ op' = name
    /\ IF x.raised
       THEN /\ ReturnRecord(ErrorResponse(errPrefix, x.err, <<>>))
            /\ faults' = faults \cup {"extract"}
            /\ text' = text
       ELSE IF IsBlank(x.text)
       THEN /\ ReturnRecord(UnverifiableResponse(blankText, <<>>))
            /\ faults' = faults
            /\ text' = x.text
       ELSE EnterCheckText(x.text)
    /\ extracted' = IF x.raised THEN "fault" ELSE "text"
    /\ UNCHANGED <<url, finalContent, rounds, issued, backendCalls, searchCalls, backendErr,
                   requests, firstCalls, http, dbVars>>

check_image(x) ==
    CheckExtracted("check_image", x, "Error processing image: ",
                   "No text found in the image to fact-check.")

check_pdf(x) ==
    CheckExtracted("check_pdf", x, "Error processing PDF: ",
                   "No text found in the PDF to fact-check.")

check_url(u, x) ==
    /\ pc = "idle"
    /\ op' = "check_url"
    /\ url' = u
    /\ IF x.raised
       THEN /\ ReturnRecord(ErrorResponse("Error processing URL: ", x.err, <<UrlSource(u)>>))
            /\ faults' = faults \cup {"extract"}
            /\ text' = text
       ELSE IF ~x.found
       THEN /\ ReturnRecord(CheckResponse("ERROR", 0, "",
                              <<"Unable to fetch content from the provided URL.">>,
                              NoEvidence, <<UrlSource(u)>>))
            /\ faults' = faults
            /\ text' = text
       ELSE IF IsBlank(x.text)
       THEN /\ ReturnRecord(UnverifiableResponse(
                              "No text content found at the URL to fact-check.",
                              <<UrlSource(u)>>))
            /\ faults' = faults
            /\ text' = x.text
       ELSE EnterCheckText(x.text)
    /\ extracted' = IF x.raised THEN "fault" ELSE IF x.found THEN "text" ELSE "nothing"
    /\ UNCHANGED <<finalContent, rounds, issued, backendCalls, searchCalls, backendErr,
                   requests, firstCalls, http, dbVars>>

(* ------------------------ the steps of check_text ---------------------- *)

\* a request to the backend raises
BackendFault(e) ==
    /\ pc \in {"request", "final"}
    /\ backendCalls' = backendCalls + 1
    /\ backendErr' = e
    /\ requests' = Append(requests, IF pc = "final" THEN "summary" ELSE "tools")
    /\ CheckTextHandler("backend", e)
    /\ UNCHANGED <<op, text, url, finalContent, rounds, issued, searchCalls, extracted,
                   firstCalls, http, dbVars>>

\* the loop written as an if: after the first round the summary is asked for
\* whatever the reply requests
BackendReply_OneRound(calls) ==
    /\ pc = "request"
    /\ backendCalls' = backendCalls + 1
    /\ issued' = issued + Len(calls)
    /\ response_message' = calls
    /\ IF calls # <<>> /\ rounds = 0
       THEN /\ messages' = Append(messages, AssistantMessage(calls))
            /\ pc' = "tools"
            /\ toolIdx' = 1
            /\ rounds' = rounds + 1
       ELSE /\ messages' = messages \o <<AssistantMessage(calls), FinalPrompt>>
            /\ pc' = "final"
            /\ toolIdx' = 0
            /\ rounds' = rounds
    /\ requests' = Append(requests, "tools")
    /\ firstCalls' = IF backendCalls = 0 THEN Len(calls) ELSE firstCalls
    /\ UNCHANGED <<op, text, url, finalContent, result, searchCalls, faults, backendErr,
                   extracted, lastQuery, lastResponse, lastSearch, http, dbVars>>

\* a first reply without tool calls is answered by asking again
BackendReply_Requery(calls) ==
    /\ pc = "request"
    /\ backendCalls' = backendCalls + 1
    /\ issued' = issued + Len(calls)
    /\ response_message' = calls
    /\ IF calls # <<>>
       THEN /\ messages' = Append(messages, AssistantMessage(calls))
            /\ pc' = "tools"
            /\ toolIdx' = 1
            /\ rounds' = rounds + 1
       ELSE IF rounds = 0
       THEN /\ messages' = Append(messages, AssistantMessage(calls))
            /\ pc' = "request"
            /\ toolIdx' = 0
            /\ rounds' = rounds
       ELSE /\ messages' = messages \o <<AssistantMessage(calls), FinalPrompt>>
            /\ pc' = "final"
            /\ toolIdx' = 0
            /\ rounds' = rounds
    /\ requests' = Append(requests, "tools")
    /\ firstCalls' = IF backendCalls = 0 THEN Len(calls) ELSE firstCalls
    /\ UNCHANGED <<op, text, url, finalContent, result, searchCalls, faults, backendErr,
                   extracted, lastQuery, lastResponse, lastSearch, http, dbVars>>

\* a request with tools offered is answered; the loop test follows
BackendReply(calls) ==
    /\ pc = "request"
    /\ backendCalls' = backendCalls + 1
    /\ issued' = issued + Len(calls)
    /\ response_message' = calls
    /\ IF calls # <<>>
       THEN /\ messages' = Append(messages, AssistantMessage(calls))
            /\ pc' = "tools"
            /\ toolIdx' = 1
            /\ rounds' = rounds + 1
       ELSE /\ messages' = messages \o <<AssistantMessage(calls), FinalPrompt>>
            /\ pc' = "final"
            /\ toolIdx' = 0
            /\ rounds' = rounds
    /\ requests' = Append(requests, "tools")
    /\ firstCalls' = IF backendCalls = 0 THEN Len(calls) ELSE firstCalls
    /\ UNCHANGED <<op, text, url, finalContent, result, searchCalls, faults, backendErr,
                   extracted, lastQuery, lastResponse, lastSearch, http, dbVars>>

\* a loop that asks the backend again after the first call of a reply
NextToolCall_EarlyRequest ==
    /\ toolIdx' = toolIdx + 1
    /\ pc' = "request"

\* the for loop moves on: back to the request when the reply is exhausted
NextToolCall ==
    /\ toolIdx' = toolIdx + 1
    /\ pc' = IF toolIdx = Len(response_message) THEN "request" ELSE "tools"

\* a loop body that puts the tool result in the place of the latest message
HandleToolCall_Overwrite(resp) ==
    /\ pc = "tools"
    /\ LET call == response_message[toolIdx]
       IN IF call.name # "search_web"
          THEN /\ NextToolCall
               /\ UNCHANGED <<messages, response_message, result, searchCalls, faults,
                              lastQuery, lastResponse, lastSearch>>
          ELSE IF ~call.decodable
          THEN /\ CheckTextHandler("arguments", "JSONDecodeError")
               /\ UNCHANGED searchCalls
          ELSE /\ NextToolCall
               /\ searchCalls' = searchCalls + 1
               /\ lastQuery' = call.query
               /\ lastResponse' = resp
               /\ lastSearch' = search_web(resp)
               /\ messages' = [messages EXCEPT ![Len(messages)] = ToolMessage(call, search_web(resp))]
               /\ faults' = IF resp.raised THEN faults \cup {"search"} ELSE faults
               /\ UNCHANGED <<response_message, result>>
    /\ UNCHANGED <<op, text, url, finalContent, rounds, issued, backendCalls, backendErr,
                   extracted, requests, firstCalls, http, dbVars>>

\* a loop body that passes over a call whose arguments do not decode
HandleToolCall_SkipUndecodable(resp) ==
    /\ pc = "tools"
    /\ LET call == response_message[toolIdx]
       IN IF call.name # "search_web"
          THEN /\ NextToolCall
               /\ UNCHANGED <<messages, response_message, result, searchCalls, faults,
                              lastQuery, lastResponse, lastSearch>>
          ELSE IF ~call.decodable
          THEN /\ NextToolCall
               /\ UNCHANGED <<messages, response_message, result, searchCalls, faults,
                              lastQuery, lastResponse, lastSearch>>
          ELSE /\ NextToolCall
               /\ searchCalls' = searchCalls + 1
               /\ lastQuery' = call.query
               /\ lastResponse' = resp
               /\ lastSearch' = search_web(resp)
               /\ messages' = Append(messages, ToolMessage(call, search_web(resp)))
               /\ faults' = IF resp.raised THEN faults \cup {"search"} ELSE faults
               /\ UNCHANGED <<response_message, result>>
    /\ UNCHANGED <<op, text, url, finalContent, rounds, issued, backendCalls, backendErr,
                   extracted, requests, firstCalls, http, dbVars>>

\* one iteration of the for loop over response_message.tool_calls
HandleToolCall(resp) ==
    /\ pc = "tools"
    /\ LET call == response_message[toolIdx]
       IN IF call.name # "search_web"
          THEN /\ NextToolCall
               /\ UNCHANGED <<messages, response_message, result, searchCalls, faults,
                              lastQuery, lastResponse, lastSearch>>
          ELSE IF ~call.decodable
          THEN /\ CheckTextHandler("arguments", "JSONDecodeError")
               /\ UNCHANGED searchCalls
          ELSE /\ NextToolCall
               /\ searchCalls' = searchCalls + 1
               /\ lastQuery' = call.query
               /\ lastResponse' = resp
               /\ lastSearch' = search_web(resp)
               /\ messages' = Append(messages, ToolMessage(call, search_web(resp)))
               /\ faults' = IF resp.raised THEN faults \cup {"search"} ELSE faults
               /\ UNCHANGED <<response_message, result>>
    /\ UNCHANGED <<op, text, url, finalContent, rounds, issued, backendCalls, backendErr,
                   extracted, requests, firstCalls, http, dbVars>>

\* the final request is answered and the reply is turned into the record
FinalReply(content) ==
    /\ pc = "final"
    /\ backendCalls' = backendCalls + 1
    /\ finalContent' = content
    /\ LET parsed == ParseFinal(content)
       IN IF parsed.raised
          THEN CheckTextHandler("parse", parsed.err)
          ELSE /\ ReturnRecord(parsed.rec)
               /\ faults' = faults
    /\ requests' = Append(requests, "summary")
    /\ UNCHANGED <<op, text, url, rounds, issued, searchCalls, backendErr, extracted,
                   firstCalls, http, dbVars>>

(* ----------------------- search_web called alone ----------------------- *)

Queries == {1, 2}

\* number of direct calls of search_web that are followed
MaxSearches == 4

SearchWeb(q, resp) ==
    /\ pc = "idle"
    /\ searchCalls < MaxSearches
    /\ searchCalls' = searchCalls + 1
    /\ lastQuery' = q
    /\ lastResponse' = resp
    /\ lastSearch' = search_web(resp)
    /\ faults' = IF resp.raised THEN faults \cup {"search"} ELSE faults
    /\ UNCHANGED <<pc, op, text, url, messages, response_message, toolIdx, finalContent,
                   result, rounds, issued, backendCalls, backendErr, extracted, requests,
                   firstCalls, http, dbVars>>

(* ------------------------- specifications ------------------------------ *)

Next ==
    \/ \E t \in Texts : check_text(t) /\ UNCHANGED outer
    \/ \E x \in Extractions : check_image(x) /\ UNCHANGED outer
    \/ \E x \in Extractions : check_pdf(x) /\ UNCHANGED outer
    \/ \E u \in Urls, x \in Extractions \cup {ExtractNothing} : check_url(u, x) /\ UNCHANGED outer
    \/ \E e \in FaultTexts : BackendFault(e) /\ UNCHANGED outer
    \/ \E n \in 0..Min(MaxCallsPerReply, MaxToolCalls - issued) :
         \E calls \in ToolCallLists(issued + 1, n) : BackendReply(calls) /\ UNCHANGED outer
    \/ \E resp \in RunSearchResponses : HandleToolCall(resp) /\ UNCHANGED outer
    \/ \E content \in FinalContents : FinalReply(content) /\ UNCHANGED outer

Spec == Init /\ [][Next]_vars

SearchNext ==
    \E q \in Queries, resp \in AllSearchResponses : SearchWeb(q, resp) /\ UNCHANGED outer

SearchSpec == Init /\ [][SearchNext]_vars

(* --------------------------- POST /check-text --------------------------- *)

\* min_length of TextRequest.text
MinTextLength == 1

\* status codes: request validation failed, the handler's HTTPException, success
ValidationError == 422
BadRequest == 400
Ok == 200

\* the response is sent: the request is over
Respond(code) ==
    /\ http' = code
    /\ pc' = "responded"
    /\ UNCHANGED <<messages, response_message, toolIdx, result, faults, lastQuery,
                   lastResponse, lastSearch>>

\* a handler that hands every validated body to check_text
upload_text_NoCheck(t) ==
    /\ pc = "idle"
    /\ op' = "upload_text"
    /\ IF Len(t) < MinTextLength
       THEN Respond(ValidationError) /\ text' = t
       ELSE EnterCheckText(t) /\ http' = http
    /\ UNCHANGED <<url, finalContent, rounds, issued, backendCalls, searchCalls, backendErr,
                   extracted, requests, firstCalls, dbVars>>

\* a request with a valid token and body text t: validation of the body
\* against TextRequest, then the handler up to the call of check_text
upload_text(t) ==
    /\ pc = "idle"
    /\ op' = "upload_text"
    /\ IF Len(t) < MinTextLength
       THEN Respond(ValidationError) /\ text' = t
       ELSE IF t = <<>> \/ IsBlank(t)
       THEN Respond(BadRequest) /\ text' = t
       ELSE EnterCheckText(t) /\ http' = http
    /\ UNCHANGED <<url, finalContent, rounds, issued, backendCalls, searchCalls, backendErr,
                   extracted, requests, firstCalls, dbVars>>

\* check_text has returned: the handler wraps the record and answers
upload_text_return ==
    /\ pc = "done"
    /\ op = "upload_text"
    /\ http' = Ok
    /\ pc' = "responded"
    /\ UNCHANGED <<op, text, url, messages, response_message, toolIdx, finalContent,
                   result, rounds, issued, backendCalls, searchCalls, faults, backendErr,
                   extracted, lastQuery, lastResponse, lastSearch, requests, firstCalls,
                   dbVars>>

ApiNext ==
    \/ \E t \in Texts : upload_text(t) /\ UNCHANGED outer
    \/ upload_text_return /\ UNCHANGED outer
    \/ \E e \in FaultTexts : BackendFault(e) /\ UNCHANGED outer
    \/ \E n \in 0..Min(MaxCallsPerReply, MaxToolCalls - issued) :
         \E calls \in ToolCallLists(issued + 1, n) : BackendReply(calls) /\ UNCHANGED outer
    \/ \E resp \in RunSearchResponses : HandleToolCall(resp) /\ UNCHANGED outer
    \/ \E content \in FinalContents : FinalReply(content) /\ UNCHANGED outer

ApiSpec == Init /\ [][ApiNext]_vars

(* ------------------------------ Database ------------------------------- *)

\* verdict.strip() is empty: the filter is not applied
BlankFilters == {""}

\* "if verdict is not None and verdict.strip()"
Filtering(verdict) == verdict # NoFilter /\ verdict \notin BlankFilters

\* the rows the query of get_fact_checks selects
Selected(rows, user_id, verdict) ==
    { r \in rows : /\ r.user_id = user_id
                   /\ Filtering(verdict) => r.verdict = verdict }

\* order_by(timestamp.desc()): every listing of the rows with timestamps
\* descending; rows with equal timestamps come in any order
Orderings(rows) ==
    { q \in [1..Cardinality(rows) -> rows] :
        /\ \A i, j \in DOMAIN q : i # j => q[i] # q[j]
        /\ \A i, j \in DOMAIN q : i < j => q[i].timestamp >= q[j].timestamp }

\* "if limit: query = query.limit(limit)"
Limited(q, limit) ==
    IF limit # NoLimit /\ limit # 0
    THEN SubSeq(q, 1, Min(limit, Len(q)))
    ELSE q

\* the rows "filter(uid == uid, user_id == user_id)" selects
Matching(rows, uid, user_id) == { r \in rows : r.uid = uid /\ r.user_id = user_id }

\* a call of op with arguments args has returned ret
DbDone(name, args, ret) ==
    /\ dbOp' = name
    /\ dbArgs' = args
    /\ dbRet' = ret
    /\ dbBefore' = store

\* an insert that does not check the primary key
save_fact_check_NoKey(user_id, check, uid, fault) ==
    /\ IF fault
       THEN /\ DbDone("save", DbArgs(0, user_id, NoLimit, NoFilter), DbRaise)
            /\ UNCHANGED <<store, savedBy>>
       ELSE /\ store' = store \cup {FactCheck(uid, user_id, check)}
            /\ savedBy' = [savedBy EXCEPT ![uid] = user_id]
            /\ DbDone("save", DbArgs(0, user_id, NoLimit, NoFilter),
                      DbReturn(uid, <<>>, FALSE))
    /\ UNCHANGED <<runVars, http>>

\* save_fact_check(user_id, check_result): uid is what uuid4 gives; the commit
\* fails on a database fault or when the primary key is already in the table
save_fact_check(user_id, check, uid, fault) ==
    /\ IF fault \/ \E r \in store : r.uid = uid
       THEN /\ DbDone("save", DbArgs(0, user_id, NoLimit, NoFilter), DbRaise)
            /\ UNCHANGED <<store, savedBy>>
       ELSE /\ store' = store \cup {FactCheck(uid, user_id, check)}
            /\ savedBy' = [savedBy EXCEPT ![uid] = user_id]
            /\ DbDone("save", DbArgs(0, user_id, NoLimit, NoFilter),
                      DbReturn(uid, <<>>, FALSE))
    /\ UNCHANGED <<runVars, http>>

\* get_fact_checks(user_id, limit, verdict)
get_fact_checks(user_id, limit, verdict, fault) ==
    /\ IF fault
       THEN DbDone("get", DbArgs(0, user_id, limit, verdict), DbRaise)
       ELSE \E q \in Orderings(Selected(store, user_id, verdict)) :
                DbDone("get", DbArgs(0, user_id, limit, verdict),
                       DbReturn(0, Limited(q, limit), FALSE))
    /\ UNCHANGED <<store, savedBy, runVars, http>>

\* a delete that looks the row up by uid alone
delete_fact_check_AnyOwner(uid, user_id, fault) ==
    /\ LET found == { r \in store : r.uid = uid }
       IN  IF fault
           THEN /\ DbDone("delete", DbArgs(uid, user_id, NoLimit, NoFilter), DbRaise)
                /\ UNCHANGED <<store, savedBy>>
           ELSE IF found = {}
           THEN /\ DbDone("delete", DbArgs(uid, user_id, NoLimit, NoFilter),
                          DbReturn(0, <<>>, FALSE))
                /\ UNCHANGED <<store, savedBy>>
           ELSE /\ \E r \in found : store' = store \ {r}
                /\ savedBy' = [savedBy EXCEPT ![uid] = NoUser]
                /\ DbDone("delete", DbArgs(uid, user_id, NoLimit, NoFilter),
                          DbReturn(0, <<>>, TRUE))
    /\ UNCHANGED <<runVars, http>>

\* delete_fact_check(uid, user_id): fault is a fault of the query or the commit
delete_fact_check(uid, user_id, fault) ==
    /\ LET found == Matching(store, uid, user_id)
       IN  IF fault
           THEN /\ DbDone("delete", DbArgs(uid, user_id, NoLimit, NoFilter), DbRaise)
                /\ UNCHANGED <<store, savedBy>>
           ELSE IF found = {}
           THEN /\ DbDone("delete", DbArgs(uid, user_id, NoLimit, NoFilter),
                          DbReturn(0, <<>>, FALSE))
                /\ UNCHANGED <<store, savedBy>>
           ELSE /\ \E r \in found : store' = store \ {r}
                /\ savedBy' = [savedBy EXCEPT ![uid] = NoUser]
                /\ DbDone("delete", DbArgs(uid, user_id, NoLimit, NoFilter),
                          DbReturn(0, <<>>, TRUE))
    /\ UNCHANGED <<runVars, http>>

StoreNext ==
    \/ \E user_id \in Users, check \in Checks, uid \in Uids, fault \in BOOLEAN :
         save_fact_check(user_id, check, uid, fault) /\ UNCHANGED outer
    \/ \E user_id \in Users, limit \in Limits, verdict \in VerdictFilters, fault \in BOOLEAN :
         get_fact_checks(user_id, limit, verdict, fault) /\ UNCHANGED outer
    \/ \E uid \in Uids, user_id \in Users, fault \in BOOLEAN :
         delete_fact_check(uid, user_id, fault) /\ UNCHANGED outer

StoreSpec == Init /\ [][StoreNext]_vars

(* ------------------------ the authenticated routes --------------------- *)

\* what the "sub" entry of a token's payload can be
Subs == Users \cup {NoSub}

\* the tokens a request can come with: forged or expired ones, whatever they
\* name, and verified ones with or without "sub"
Tokens == { Token(valid, sub) : valid \in BOOLEAN, sub \in Subs }

\* status codes of the routes
Unauthorized == 401
NotFound == 404
ServerError == 500

\* verify_token: jwt.decode raises JWTError, or "sub" is missing, or it is returned
verify_token(token) ==
    IF ~token.valid \/ token.sub = NoSub
    THEN [raised |-> TRUE, user_id |-> NoUser]
    ELSE [raised |-> FALSE, user_id |-> token.sub]

\* a handler that takes the user from the body of the request
Identity_FromBody(auth, body_user_id) == body_user_id

\* the user the handlers act for: authenticated_user_id = Depends(verify_token)
Identity(auth, body_user_id) == auth.user_id

\* the dependency raised HTTPException(401): the handler is never entered
Refuse(endpoint, token, body_user_id) ==
    /\ api' = ApiCall(endpoint, token, body_user_id, Unauthorized, NoUser)
    /\ UNCHANGED <<runVars, http, dbVars, other>>

\* POST /check-text up to the call of check_text
check_text_route(token, body_user_id, t) ==
    /\ pc = "idle"
    /\ IF verify_token(token).raised
       THEN Refuse("upload_text", token, body_user_id)
       ELSE /\ upload_text(t)
            /\ api' = ApiCall("upload_text", token, body_user_id, http', NoUser)
            /\ UNCHANGED other

\* POST /check-text from the return of check_text on:
\* ResponseModel(user_id=authenticated_user_id, ...)
check_text_response ==
    /\ api.endpoint = "upload_text"
    /\ upload_text_return
    /\ api' = [api EXCEPT !.status = http',
                          !.user_id = Identity(verify_token(api.token), api.body_user_id)]
    /\ UNCHANGED other

\* POST /save-factcheck
save_result(token, body_user_id, check, uid, fault) ==
    /\ pc \in {"idle", "responded"}
    /\ IF verify_token(token).raised
       THEN Refuse("save_result", token, body_user_id)
       ELSE /\ save_fact_check(Identity(verify_token(token), body_user_id), check, uid, fault)
            /\ api' = ApiCall("save_result", token, body_user_id,
                              IF dbRet'.raised THEN ServerError ELSE Ok, NoUser)
            /\ UNCHANGED other

\* GET /get-factchecks: the request has no body
get_results(token, limit, verdict, fault) ==
    /\ pc \in {"idle", "responded"}
    /\ IF verify_token(token).raised
       THEN Refuse("get_results", token, NoUser)
       ELSE /\ get_fact_checks(Identity(verify_token(token), NoUser), limit, verdict, fault)
            /\ api' = ApiCall("get_results", token, NoUser,
                              IF dbRet'.raised THEN ServerError ELSE Ok, NoUser)
            /\ UNCHANGED other

\* DELETE /delete-factcheck: the request has no body
delete_result(token, uid, fault) ==
    /\ pc \in {"idle", "responded"}
    /\ IF verify_token(token).raised
       THEN Refuse("delete_result", token, NoUser)
       ELSE /\ delete_fact_check(uid, Identity(verify_token(token), NoUser), fault)
            /\ api' = ApiCall("delete_result", token, NoUser,
                              IF dbRet'.raised THEN ServerError
                              ELSE IF dbRet'.ok THEN Ok ELSE NotFound, NoUser)
            /\ UNCHANGED other

\* the inputs the routes are followed with
AuthMaxToolCalls == 1
AuthTexts == { <<>>, <<" ", "a", " ">> }
AuthChecks == { c \in Checks : c.verdict = "TRUE" /\ c.timestamp = 1 }
AuthContents ==
    { JsonObject(Str("TRUE"), Num(95),
                 <<GoodClaim, GoodConclusion, GoodEvidence, GoodSources, GoodCitations>>) }
AuthFaults == {"timeout"}
\* a forged token naming alice, a verified token without "sub", and the
\* verified tokens of alice and bob
AuthTokens == { t \in Tokens : t.valid \/ t.sub = "alice" }

AuthNext ==
    \/ \E token \in AuthTokens, body_user_id \in Users, t \in AuthTexts :
         check_text_route(token, body_user_id, t)
    \/ check_text_response
    \/ \E token \in AuthTokens, body_user_id \in Users, check \in AuthChecks, uid \in Uids,
          fault \in BOOLEAN :
         save_result(token, body_user_id, check, uid, fault)
    \/ \E token \in AuthTokens, fault \in BOOLEAN : get_results(token, MaxLimit, NoFilter, fault)
    \/ \E token \in AuthTokens, uid \in Uids, fault \in BOOLEAN : delete_result(token, uid, fault)
    \/ \E e \in AuthFaults : BackendFault(e) /\ UNCHANGED outer
    \/ \E n \in 0..Min(MaxCallsPerReply, AuthMaxToolCalls - issued) :
         \E calls \in ToolCallLists(issued + 1, n) : BackendReply(calls) /\ UNCHANGED outer
    \/ \E resp \in RunSearchResponses : HandleToolCall(resp) /\ UNCHANGED outer
    \/ \E content \in AuthContents : FinalReply(content) /\ UNCHANGED outer

AuthSpec == Init /\ [][AuthNext]_vars

(* --------------------- two check_text runs in flight ------------------- *)

\* the locals of the run that is running now
CurrentLocals ==
    Locals(pc, op, text, url, messages, response_message, toolIdx, finalContent, result,
           rounds, backendCalls, searchCalls, faults, backendErr, extracted, lastQuery,
           lastResponse, lastSearch, requests, firstCalls)

\* a FactChecker that keeps the conversation on the instance
Switch_SharedConversation ==
    /\ other # CurrentLocals
    /\ other' = CurrentLocals
    /\ pc' = other.pc
    /\ op' = other.op
    /\ text' = other.text
    /\ url' = other.url
    /\ messages' = messages
    /\ response_message' = response_message
    /\ toolIdx' = other.toolIdx
    /\ finalContent' = other.finalContent
    /\ result' = other.result
    /\ rounds' = other.rounds
    /\ backendCalls' = other.backendCalls
    /\ searchCalls' = other.searchCalls
    /\ faults' = other.faults
    /\ backendErr' = other.backendErr
    /\ extracted' = other.extracted
    /\ lastQuery' = other.lastQuery
    /\ lastResponse' = other.lastResponse
    /\ lastSearch' = other.lastSearch
    /\ requests' = other.requests
    /\ firstCalls' = other.firstCalls
    /\ UNCHANGED <<issued, http, dbVars, api>>

\* the other run goes on: each call of check_text has locals of its own,
\* the FactChecker instance holds the clients and the tool list only; the
\* backend numbers its tool calls across the runs
Switch ==
    /\ other # CurrentLocals
    /\ other' = CurrentLocals
    /\ pc' = other.pc
    /\ op' = other.op
    /\ text' = other.text
    /\ url' = other.url
    /\ messages' = other.messages
    /\ response_message' = other.response_message
    /\ toolIdx' = other.toolIdx
    /\ finalContent' = other.finalContent
    /\ result' = other.result
    /\ rounds' = other.rounds
    /\ backendCalls' = other.backendCalls
    /\ searchCalls' = other.searchCalls
    /\ faults' = other.faults
    /\ backendErr' = other.backendErr
    /\ extracted' = other.extracted
    /\ lastQuery' = other.lastQuery
    /\ lastResponse' = other.lastResponse
    /\ lastSearch' = other.lastSearch
    /\ requests' = other.requests
    /\ firstCalls' = other.firstCalls
    /\ UNCHANGED <<issued, http, dbVars, api>>

\* the inputs the two runs are followed with
ConcMaxToolCalls == 2
ConcTexts == { <<"a">>, <<"b">> }
ConcFaults == {"timeout"}
ConcContents ==
    { JsonObject(Str(v), Num(95),
                 <<GoodClaim, GoodConclusion, GoodEvidence, GoodSources, GoodCitations>>) :
        v \in {"TRUE", "FALSE"} }

ConcNext ==
    \/ \E t \in ConcTexts : check_text(t) /\ UNCHANGED outer
    \/ \E e \in ConcFaults : BackendFault(e) /\ UNCHANGED outer
    \/ \E n \in 0..Min(MaxCallsPerReply, ConcMaxToolCalls - issued) :
         \E calls \in ToolCallLists(issued + 1, n) : BackendReply(calls) /\ UNCHANGED outer
    \/ \E resp \in RunSearchResponses : HandleToolCall(resp) /\ UNCHANGED outer
    \/ \E content \in ConcContents : FinalReply(content) /\ UNCHANGED outer
    \/ Switch

ConcSpec == Init /\ [][ConcNext]_vars

(* ------------------------------ claims --------------------------------- *)

Returned == pc = "done"

\* a claim body that is empty or consists of whitespace only
BlankBody(t) == \A i \in DOMAIN t : t[i] \in Whitespace

\* x occurs in the formatted text s
Contains(s, x) == \E i \in DOMAIN s : s[i] = x

\* the final request was answered and the answer reached the parse
FinalReceived ==
    /\ Returned
    /\ backendCalls >= 2
    /\ faults \cap {"backend", "arguments"} = {}

\* C1: every record returned by check_text, check_image, check_pdf or
\* check_url has a verdict among TRUE, FALSE, UNVERIFIABLE, ERROR and a
\* confidence between 0.0 and 1.0, whatever the final reply contains.
C1_RecordInRange ==
    Returned =>
        /\ result.verdict \in Verdicts
        /\ result.confidence >= 0
        /\ result.confidence <= ConfidenceScale

\* a run that received a reply with confidence 1.01 has returned
C1_Witness ==
    /\ FinalReceived
    /\ finalContent.kind = "object"
    /\ finalContent.confidence = Num(101)
    /\ finalContent.verdict = Str("TRUE")
    /\ result.verdict = "ERROR"

\* C2: the tool loop of check_text enforces a maximum round count (the
\* recommended one is 5): no run starts more rounds than that, even if the
\* backend requests a search in every reply.
C2_RoundsBounded == rounds <= 5

\* C3: whenever the backend call, the search or extract call, the decoding
\* of tool arguments or the parsing of the final reply raised during the
\* run, the returned record has verdict ERROR.
C3_FaultGivesError ==
    (Returned /\ faults # {}) => result.verdict = "ERROR"

\* every request the run sent to the backend raised
BackendAlwaysRaised ==
    /\ "backend" \in faults
    /\ backendCalls = 1

\* C4: if the backend raises on every call, check_text returns verdict
\* ERROR, confidence 0.0 and a conclusion containing the fault's description.
C4_BackendDown ==
    (Returned /\ op = "check_text" /\ BackendAlwaysRaised) =>
        /\ result.verdict = "ERROR"
        /\ result.confidence = 0
        /\ Contains(result.conclusion, backendErr)

C4_Witness ==
    /\ Returned
    /\ op = "check_text"
    /\ BackendAlwaysRaised
    /\ backendErr = "refused"
    /\ ~BlankBody(text)

\* C5: check_text given an empty or whitespace-only claim body issues no
\* request to the backend and returns UNVERIFIABLE with confidence 0.0 and
\* no sources.
C5_BlankTextNoBackend ==
    (op = "check_text" /\ BlankBody(text)) =>
        /\ backendCalls = 0
        /\ Returned =>
            /\ result.verdict = "UNVERIFIABLE"
            /\ result.confidence = 0
            /\ result.sources = <<>>

\* the extraction step returned text that is empty or whitespace-only
ExtractedBlank ==
    /\ Returned
    /\ op \in {"check_image", "check_pdf", "check_url"}
    /\ extracted = "text"
    /\ BlankBody(text)

\* C6 as stated: for check_image, check_pdf and check_url alike, blank
\* extracted text gives UNVERIFIABLE, confidence 0.0 and an empty sources list.
C6_BlankExtractionNoSources ==
    ExtractedBlank =>
        /\ result.verdict = "UNVERIFIABLE"
        /\ result.confidence = 0
        /\ result.sources = <<>>

\* C6 amended: blank extracted text gives UNVERIFIABLE and confidence 0.0
\* for all three; the sources list is empty for check_image and check_pdf,
\* and for check_url it holds exactly the entry "Source URL" with the URL.
C6_BlankExtraction ==
    ExtractedBlank =>
        /\ result.verdict = "UNVERIFIABLE"
        /\ result.confidence = 0
        /\ result.sources = IF op = "check_url" THEN <<UrlSource(url)>> ELSE <<>>

C6_Witness ==
    /\ ExtractedBlank
    /\ op = "check_url"
    /\ text # <<>>
    /\ result.sources # <<>>

\* C7: if the search client raises on the single search of a check_text run
\* while the backend works normally, the record has verdict ERROR and
\* confidence 0.0.
C7_SearchFaultGivesError ==
    (Returned /\ op = "check_text" /\ searchCalls = 1 /\ faults = {"search"}) =>
        /\ result.verdict = "ERROR"
        /\ result.confidence = 0

\* C8: search_web always returns: on a fault of the client an empty results
\* list, an empty answer and the fault text as error annotation; otherwise
\* the client's results and answer, [] and "" standing in for a missing
\* key, and no error annotation.
C8_SearchWebTotal ==
    searchCalls >= 1 =>
        IF lastResponse.raised
        THEN /\ lastSearch.results = <<>>
             /\ lastSearch.answer = ""
             /\ lastSearch.hasError
             /\ lastSearch.error = lastResponse.err
        ELSE /\ lastSearch.results
                  = (IF lastResponse.hasResults THEN lastResponse.results ELSE <<>>)
             /\ lastSearch.answer
                  = (IF lastResponse.hasAnswer THEN lastResponse.answer ELSE "")
             /\ ~lastSearch.hasError

C8_Witness ==
    /\ searchCalls >= 2
    /\ lastResponse.raised
    /\ lastResponse.err = "refused"
    /\ lastSearch.hasError

\* the final reply parses into the record's structure: a JSON object whose
\* evidence and sources have the declared shapes, with a verdict of the
\* closed set and a confidence within range
ParseableReply(d) ==
    /\ d.kind = "object"
    /\ SourceField(d).tag # "bad"
    /\ d.evidence.tag # "bad"
    /\ d.verdict.tag = "str"
    /\ d.verdict.val \in Verdicts
    /\ d.confidence.tag \in {"num", "numstr"}
    /\ d.confidence.val >= 0
    /\ d.confidence.val <= ConfidenceScale

\* C9: when the backend completes normally and the final reply is
\* parseable structured output with an in-set verdict and an in-range
\* confidence, verdict, confidence, claim and conclusion of the record are
\* the values the backend reported, however many search rounds came before.
C9_ReportedValuesKept ==
    (FinalReceived /\ ParseableReply(finalContent)) =>
        /\ result.verdict = finalContent.verdict.val
        /\ result.confidence = finalContent.confidence.val
        /\ finalContent.claim.tag = "str" => result.claim = finalContent.claim.val
        /\ finalContent.conclusion.tag = "str"
              => result.conclusion = <<finalContent.conclusion.val>>

\* verdict FALSE with confidence 0.95 after at least one search round
C9_Witness ==
    /\ FinalReceived
    /\ rounds >= 1
    /\ searchCalls >= 1
    /\ finalContent.verdict = Str("FALSE")
    /\ finalContent.confidence = Num(95)
    /\ finalContent.claim.tag = "str"
    /\ finalContent.conclusion.tag = "str"
    /\ result.verdict = "FALSE"
    /\ result.confidence = 95

\* C10: a final reply whose content is not well-formed structured data gives
\* a record with verdict ERROR and confidence 0.0.
C10_UnparseableGivesError ==
    (FinalReceived /\ finalContent.kind # "object") =>
        /\ result.verdict = "ERROR"
        /\ result.confidence = 0

C10_Witness ==
    /\ FinalReceived
    /\ finalContent.kind = "garbage"
    /\ "parse" \in faults
    /\ result.verdict = "ERROR"

\* C11 as stated: when the final reply parses but fields are absent, an
\* absent verdict becomes ERROR, an absent confidence 0.0, absent evidence
\* empty supporting and counter lists, absent sources an empty list.
C11_AbsentFieldDefaults ==
    (FinalReceived /\ finalContent.kind = "object" /\ "parse" \notin faults) =>
        /\ finalContent.verdict.tag = "absent" => result.verdict = "ERROR"
        /\ finalContent.confidence.tag = "absent" => result.confidence = 0
        /\ finalContent.evidence.tag = "absent" => result.evidence = NoEvidence
        /\ (finalContent.sources.tag = "absent" /\ finalContent.citations.tag = "absent")
              => result.sources = <<>>

\* C12: a failed backend call is never retried: once a request to the
\* backend has raised, the run is over with an ERROR record, and no step
\* sends another request to the backend or invokes the search client.
C12_NoRetry ==
    [][ "backend" \in faults' =>
          /\ pc' = "done"
          /\ result'.verdict = "ERROR"
          /\ "backend" \in faults =>
                (backendCalls' = backendCalls /\ searchCalls' = searchCalls) ]_vars

\* the backend raised on a resend, after two searches
C12_Witness ==
    /\ Returned
    /\ "backend" \in faults
    /\ backendCalls >= 3
    /\ searchCalls >= 2
    /\ result.verdict = "ERROR"

\* the body of check_text has been entered
CheckTextInvoked == pc \in {"request", "tools", "final"} \/ backendCalls > 0

\* the extraction step of check_image, check_pdf or check_url yielded nothing
ExtractedNothing ==
    /\ op \in {"check_image", "check_pdf", "check_url"}
    /\ \/ extracted = "nothing"
       \/ extracted = "text" /\ BlankBody(text)

\* C17 as stated: for image, document and URL inputs an extraction that
\* yields nothing (no extracted results or empty text) gives UNVERIFIABLE,
\* one that raises gives ERROR, and check_text is invoked in neither case.
C17_NothingUnverifiable ==
    /\ ExtractedNothing =>
          /\ ~CheckTextInvoked
          /\ Returned => result.verdict = "UNVERIFIABLE"
    /\ (op \in {"check_image", "check_pdf", "check_url"} /\ extracted = "fault") =>
          /\ ~CheckTextInvoked
          /\ Returned => result.verdict = "ERROR"

\* C17 amended: empty or whitespace-only extracted text gives UNVERIFIABLE;
\* an extraction that raises gives ERROR, and so does a URL extraction that
\* returns no results; check_text is invoked in none of these cases.
C17_ExtractionPolicy ==
    /\ ExtractedNothing =>
          /\ ~CheckTextInvoked
          /\ Returned =>
                result.verdict = IF extracted = "nothing" THEN "ERROR" ELSE "UNVERIFIABLE"
    /\ (op \in {"check_image", "check_pdf", "check_url"} /\ extracted = "fault") =>
          /\ ~CheckTextInvoked
          /\ Returned => result.verdict = "ERROR"

C17_Witness ==
    /\ Returned
    /\ op = "check_url"
    /\ extracted = "nothing"
    /\ result.verdict = "ERROR"
    /\ backendCalls = 0

\* the tool calls of all backend replies in the conversation, in order
RECURSIVE RequestedCalls(_)
RequestedCalls(msgs) ==
    IF msgs = <<>> THEN <<>>
    ELSE RequestedCalls(SubSeq(msgs, 1, Len(msgs) - 1))
         \o (IF msgs[Len(msgs)].role = "assistant" THEN msgs[Len(msgs)].tool_calls ELSE <<>>)

\* the tool-result messages of the conversation, in order
ToolResults(msgs) == SelectSeq(msgs, LAMBDA m : m.role = "tool")

\* number of tool-result messages tagged with id
ResultsFor(msgs, id) ==
    Cardinality({ i \in DOMAIN msgs : msgs[i].role = "tool" /\ msgs[i].tool_call_id = id })

C19_SummaryOnceLast ==
    /\ \A i \in DOMAIN requests : requests[i] = "summary" => i = Len(requests)
    /\ (\E i \in DOMAIN requests : requests[i] = "summary") => pc = "done"
    /\ pc = "final" =>
          /\ messages[Len(messages)] = FinalPrompt
          /\ messages[Len(messages) - 1].role = "assistant"
          /\ messages[Len(messages) - 1].tool_calls = <<>>
    /\ (Returned /\ CheckTextInvoked /\ faults = {}) =>
          /\ requests # <<>>
          /\ requests[Len(requests)] = "summary"

\* a fault-free run with two tool rounds has returned
C19_Witness ==
    /\ Returned
    /\ faults = {}
    /\ rounds = 2
    /\ searchCalls = 3
    /\ requests = <<"tools", "tools", "tools", "summary">>

\* C20: if the first backend reply requests no tool call, check_text never
\* invokes the search and issues exactly two backend requests; in general a
\* fault-free run with k tool rounds issues exactly k + 2 backend requests.
C20_RequestCount ==
    (Returned /\ CheckTextInvoked /\ faults = {}) =>
        /\ backendCalls = rounds + 2
        /\ Len(requests) = backendCalls
        /\ firstCalls = 0 => (searchCalls = 0 /\ backendCalls = 2)

C20_Witness ==
    /\ Returned
    /\ faults = {}
    /\ firstCalls = 0
    /\ searchCalls = 0
    /\ backendCalls = 2
    /\ result.verdict = "TRUE"

\* C16 (as stated): an empty or whitespace-only text submitted to /check-text
\* is answered with status 400, check_text is not invoked and no backend or
\* search call is made for the request.
C16_BlankRejected400 ==
    (op = "upload_text" /\ BlankBody(text)) =>
        /\ http = 400
        /\ pc = "responded"
        /\ ~CheckTextInvoked
        /\ backendCalls = 0
        /\ searchCalls = 0

\* C16 (amended): an empty text is rejected by the validation of the request
\* body with status 422, a whitespace-only text by the handler with status
\* 400; in both cases check_text is not invoked and no backend or search
\* call is made for the request.
C16_BlankRejected ==
    (op = "upload_text" /\ BlankBody(text)) =>
        /\ http = (IF Len(text) = 0 THEN 422 ELSE 400)
        /\ pc = "responded"
        /\ ~CheckTextInvoked
        /\ backendCalls = 0
        /\ searchCalls = 0
        /\ result = NoRecord

\* a whitespace-only body has been answered
C16_Witness ==
    /\ op = "upload_text"
    /\ text = <<" ", "\n">>
    /\ http = 400
    /\ pc = "responded"
    /\ backendCalls = 0

\* the rows of a list in which no row occurs twice
Distinct(q) == \A i, j \in DOMAIN q : i # j => q[i] # q[j]

\* C13: delete_fact_check(uid, user_id) returns False and leaves the store
\* unchanged when no record has that uid or the record is owned by another
\* user; it returns True exactly when a record with that uid owned by user_id
\* exists, and then removes that record and no other.
C13_DeleteContract ==
    (dbOp = "delete" /\ ~dbRet.raised) =>
        LET owned == { r \in dbBefore : r.uid = dbArgs.uid /\ r.user_id = dbArgs.user_id }
        IN  /\ dbRet.ok <=> owned # {}
            /\ ~dbRet.ok => store = dbBefore
            /\ dbRet.ok => /\ Cardinality(owned) = 1
                           /\ store = dbBefore \ owned

\* a delete by a user who does not own the record has returned False
C13_Witness ==
    /\ dbOp = "delete"
    /\ ~dbRet.raised
    /\ ~dbRet.ok
    /\ \E r \in dbBefore : r.uid = dbArgs.uid /\ r.user_id # dbArgs.user_id
    /\ store = dbBefore

\* C14: get_fact_checks(user_id, limit, verdict) returns exactly the first
\* min(limit, n) of the n records owned by user_id (with the given verdict
\* when a filter is supplied), newest first; no record of another user and
\* never more than limit records.
C14_ListContract ==
    (dbOp = "get" /\ ~dbRet.raised /\ dbArgs.limit # NoLimit) =>
        LET owned == { r \in store :
                         /\ r.user_id = dbArgs.user_id
                         /\ dbArgs.verdict \in SavedVerdicts => r.verdict = dbArgs.verdict }
            rows == dbRet.rows
        IN  /\ Len(rows) = Min(dbArgs.limit, Cardinality(owned))
            /\ Len(rows) <= dbArgs.limit
            /\ Distinct(rows)
            /\ \A i \in DOMAIN rows : rows[i] \in owned
            /\ \A i, j \in DOMAIN rows : i < j => rows[i].timestamp >= rows[j].timestamp
            /\ \A r \in owned : \A i \in DOMAIN rows :
                   r.timestamp > rows[i].timestamp => \E j \in DOMAIN rows : rows[j] = r

\* C15: all stored records have pairwise distinct uids, the owner of each is
\* the user_id passed to the save that created it, a save that returns has
\* added one record under an identifier that was not in the store, and a save
\* that fails leaves the store unchanged.
C15_SaveContract ==
    /\ \A r1, r2 \in store : r1.uid = r2.uid => r1 = r2
    /\ \A r \in store : r.user_id = savedBy[r.uid]
    /\ (dbOp = "save" /\ dbRet.raised) => store = dbBefore
    /\ (dbOp = "save" /\ ~dbRet.raised) =>
          /\ \A r \in dbBefore : r.uid # dbRet.uid
          /\ \E r \in store : /\ r.uid = dbRet.uid
                              /\ r.user_id = dbArgs.user_id
                              /\ r \notin dbBefore
                              /\ store = dbBefore \cup {r}

\* a second user has saved a record next to the record of the first
C15_Witness ==
    /\ dbOp = "save"
    /\ ~dbRet.raised
    /\ Cardinality(store) = 2
    /\ \E r1, r2 \in store : r1.user_id = "alice" /\ r2.user_id = "bob"

\* position of the latest backend reply in the conversation (0: none)
LastAssistant(msgs) ==
    IF \E i \in DOMAIN msgs : msgs[i].role = "assistant"
    THEN CHOOSE i \in DOMAIN msgs :
             /\ msgs[i].role = "assistant"
             /\ \A j \in DOMAIN msgs : msgs[j].role = "assistant" => j <= i
    ELSE 0

\* what was appended after the latest backend reply
SinceReply(msgs) == SubSeq(msgs, LastAssistant(msgs) + 1, Len(msgs))

\* C21: the tool calls of one backend reply are handled one after the other
\* in the order of the reply: every search is finished and its tool-result
\* message appended before the next call is taken up, the tool-result
\* messages stand in reply order, and the next backend request is issued only
\* when all calls of the round have been handled.
C21_SequentialCalls ==
    (pc \in {"tools", "request"} /\ rounds >= 1) =>
        LET tail == SinceReply(messages)
            handled == IF pc = "tools" THEN toolIdx - 1 ELSE Len(response_message)
        IN  /\ messages[LastAssistant(messages)].tool_calls = response_message
            /\ Len(tail) = handled
            /\ \A i \in DOMAIN tail :
                   /\ tail[i].role = "tool"
                   /\ tail[i].tool_call_id = response_message[i].id
            /\ searchCalls = Len(ToolResults(messages))
            /\ Len(requests) = rounds

\* both calls of a reply with two calls have been handled
C21_Witness ==
    /\ pc = "request"
    /\ rounds = 1
    /\ Len(response_message) = 2
    /\ searchCalls = 2
    /\ messages[Len(messages) - 1].tool_call_id = response_message[1].id
    /\ messages[Len(messages)].tool_call_id = response_message[2].id

\* check_text is between its first request and its return
Running(p) == p \in {"request", "tools", "final"}

IsPrefix(a, b) == Len(a) <= Len(b) /\ SubSeq(b, 1, Len(a)) = a

\* C23: within a run the conversation is append-only: it starts as the
\* system turn followed by the user turn with the claim body, every step
\* keeps what is there, every backend reply is appended as the next message
\* before anything derived from it, so each request carries a conversation
\* of which the previous request's conversation is a strict prefix.
C23_AppendOnly ==
    [][ /\ (~Running(pc) /\ Running(pc')) =>
              messages' = <<SystemMessage, UserMessage(text')>>
        /\ (Running(pc) /\ Running(pc')) =>
              /\ IsPrefix(messages, messages')
              /\ backendCalls' # backendCalls =>
                    /\ Len(messages') > Len(messages)
                    /\ messages'[Len(messages) + 1] = AssistantMessage(response_message')
        /\ (Running(pc) /\ pc' = "final") =>
              messages'[Len(messages')] = FinalPrompt
      ]_vars

\* the conversation before the summary request after two tool rounds
C23_Witness ==
    /\ pc = "final"
    /\ rounds = 2
    /\ searchCalls = 3
    /\ Len(messages) = 9
    /\ messages[1] = SystemMessage
    /\ messages[2] = UserMessage(text)
    /\ messages[3].role = "assistant"

\* the call the for loop is at has arguments that do not decode
AtUndecodableCall ==
    /\ pc = "tools"
    /\ response_message[toolIdx].name = "search_web"
    /\ ~response_message[toolIdx].decodable

\* C24: a search_web tool call whose arguments cannot be decoded aborts the
\* run at that call: no search is executed for it, the remaining calls of
\* the round are not handled, no further backend request is issued, and the
\* record returned has verdict ERROR and confidence 0.0.
C24_UndecodableAborts ==
    [][ /\ AtUndecodableCall =>
              /\ pc' = "done"
              /\ result'.verdict = "ERROR"
              /\ result'.confidence = 0
              /\ searchCalls' = searchCalls
              /\ backendCalls' = backendCalls
              /\ requests' = requests
        /\ (Returned /\ "arguments" \in faults) =>
              UNCHANGED <<searchCalls, backendCalls, requests, result>>
      ]_vars

\* the first of two calls of a reply did not decode: the second was never handled
C24_Witness ==
    /\ Returned
    /\ "arguments" \in faults
    /\ issued = 2
    /\ searchCalls = 0
    /\ backendCalls = 1
    /\ result.verdict = "ERROR"

\* a well-formed final reply with a verdict outside the set or a confidence
\* outside the range
OutOfRangeReply(d) ==
    /\ d.kind = "object"
    /\ SourceField(d).tag # "bad"
    /\ d.evidence.tag # "bad"
    /\ d.confidence.tag # "badstr"
    /\ \/ d.verdict.tag = "str" /\ d.verdict.val \notin {"TRUE", "FALSE", "UNVERIFIABLE", "ERROR"}
       \/ d.confidence.tag \in {"num", "numstr"}
            /\ (d.confidence.val < 0 \/ d.confidence.val > 100)

\* C25: a well-formed final reply whose verdict is outside TRUE, FALSE,
\* UNVERIFIABLE, ERROR or whose confidence is outside [0.0, 1.0] is discarded
\* as a whole: the record is an ERROR record with confidence 0.0, empty
\* claim, empty evidence and empty sources.
C25_OutOfRangeDiscarded ==
    (FinalReceived /\ OutOfRangeReply(finalContent)) =>
        /\ result.verdict = "ERROR"
        /\ result.confidence = 0
        /\ result.claim = ""
        /\ result.evidence = [supporting |-> <<>>, counter |-> <<>>]
        /\ result.sources = <<>>
        /\ "parse" \in faults

\* a reply with claim, evidence and sources but confidence 1.01 was discarded
C25_Witness ==
    /\ FinalReceived
    /\ finalContent.verdict = Str("TRUE")
    /\ finalContent.confidence = Num(101)
    /\ finalContent.claim = GoodClaim
    /\ finalContent.evidence = GoodEvidence
    /\ finalContent.sources = GoodSources
    /\ result.verdict = "ERROR"
    /\ result.claim = ""

\* the request was let through to its handler
Admitted == api.endpoint # "" /\ api.status # 401

\* C26: the identity the check, save, list and delete routes act for is the
\* subject of the verified bearer token: the user_id of a response, the owner
\* of a saved record and the owner scope of list and delete are that subject
\* whatever user_id the body of the request carries, and a request whose
\* token does not verify or names no subject is refused.
C26_IdentityFromToken ==
    /\ Admitted => (api.token.valid /\ api.token.sub \in Users)
    /\ api.user_id # NoUser => api.user_id = api.token.sub
    /\ (Admitted /\ api.endpoint = "upload_text" /\ api.status = 200) =>
          api.user_id = api.token.sub
    /\ (Admitted /\ api.endpoint \in {"save_result", "get_results", "delete_result"}) =>
          dbArgs.user_id = api.token.sub
    /\ (Admitted /\ api.endpoint = "save_result" /\ api.status = 200) =>
          \E r \in store : /\ r.uid = dbRet.uid
                           /\ r.user_id = api.token.sub
                           /\ store = dbBefore \cup {r}
    /\ (Admitted /\ api.endpoint = "get_results" /\ api.status = 200) =>
          \A i \in DOMAIN dbRet.rows : dbRet.rows[i].user_id = api.token.sub
    /\ (Admitted /\ api.endpoint = "delete_result") =>
          \A r \in dbBefore \ store : r.user_id = api.token.sub

\* bob's token with alice's user_id in the body: the record saved is bob's
C26_Witness ==
    /\ api.endpoint = "save_result"
    /\ api.status = 200
    /\ api.token = Token(TRUE, "bob")
    /\ api.body_user_id = "alice"
    /\ \E r \in store : r.uid = dbRet.uid /\ r.user_id = "bob"
    /\ \E r \in store : r.user_id = "alice"

\* the ids of the tool calls the backend requested in a conversation
CallIds(msgs) == { RequestedCalls(msgs)[i].id : i \in DOMAIN RequestedCalls(msgs) }

\* the record a run that executes alone returns for the responses it received
SoloResult(run) ==
    IF "backend" \in run.faults
    THEN CheckResponse("ERROR", 0, "", <<"Error during fact-checking: ", run.backendErr>>,
                       NoEvidence, <<>>)
    ELSE IF "arguments" \in run.faults
    THEN CheckResponse("ERROR", 0, "", <<"Error during fact-checking: ", "JSONDecodeError">>,
                       NoEvidence, <<>>)
    ELSE IF ParseFinal(run.finalContent).raised
    THEN CheckResponse("ERROR", 0, "",
                       <<"Error during fact-checking: ", ParseFinal(run.finalContent).err>>,
                       NoEvidence, <<>>)
    ELSE ParseFinal(run.finalContent).rec

\* a run holds its own turns and results only, and returns what it would alone
OwnRun(run) ==
    /\ Running(run.pc) =>
          /\ run.messages[1] = SystemMessage
          /\ run.messages[2] = UserMessage(run.text)
          /\ Len(SelectSeq(run.messages, LAMBDA m : m.role = "assistant")) = run.backendCalls
          /\ Len(ToolResults(run.messages)) = run.searchCalls
          /\ \A i \in DOMAIN run.messages :
                run.messages[i].role = "tool" =>
                    run.messages[i].tool_call_id \in CallIds(run.messages)
    /\ run.pc = "tools" =>
          run.messages[LastAssistant(run.messages)].tool_calls = run.response_message
    /\ run.pc = "done" => run.result = SoloResult(run)

\* C22: two check_text runs in flight on one FactChecker are independent
\* under every interleaving: the conversation of each holds only its own
\* turns and tool results, and the record each returns is the one it returns
\* when it runs alone with the same backend and search responses.
C22_RunsIndependent ==
    /\ OwnRun(CurrentLocals)
    /\ OwnRun(other)
    /\ (Running(pc) /\ Running(other.pc)) =>
          CallIds(messages) \cap CallIds(other.messages) = {}

\* two runs with different claims are under way at once, each with a search done
C22_Witness ==
    /\ pc = "request"
    /\ other.pc = "final"
    /\ text # other.text
    /\ searchCalls = 1
    /\ other.searchCalls = 1
    /\ messages[2] = UserMessage(text)
    /\ other.messages[2] = UserMessage(other.text)

====
